---------------------------- MODULE Spec2Model ----------------------------
(***************************************************************************)
(* Disk request pipeline and file abstraction of arch/linux/disk.cc.       *)
(*                                                                         *)
(* linux_file_t validates a request (verify) and hands it to its own       *)
(* linux_templated_disk_manager_t, which allocates an action and pushes it *)
(* through stats -> conflict_resolver -> backend; the backend's completion *)
(* travels back conflict_resolver -> stats -> disk manager, which invokes  *)
(* the caller's callback and deletes the action.                           *)
(*                                                                         *)
(* The three stages, ceil_aligned, rassert and DEVICE_BLOCK_SIZE are       *)
(* declared in headers outside disk.cc; they are modelled from the design  *)
(* document (sections 2, 4.1, 4.3, 4.4, 4.5).                              *)
(***************************************************************************)
EXTENDS Integers, Sequences, FiniteSets, TLC

(***************************************************************************)
(* Bounds of the model.                                                    *)
(***************************************************************************)
\* Actions a run allocates before the caller stops submitting.
MaxActions == 3
\* Width of size_t in the model: size_t arithmetic is modulo 2^WordBits.
WordBits == 22
\* EINTR results one blocking call may see before the model stops interrupting.
MaxEintr == 2

(***************************************************************************)
(* Program constants.                                                      *)
(***************************************************************************)
\* config/args.hpp (outside disk.cc): the direct-I/O block size.
DEVICE_BLOCK_SIZE == 512
\* disk.cc:177, the factor in DEVICE_BLOCK_SIZE * 128.
GROWTH_BLOCKS == 128
\* disk.cc:83, fd(INVALID_FD).
INVALID_FD == -1

Word == 2 ^ WordBits
GrowthChunk == DEVICE_BLOCK_SIZE * GROWTH_BLOCKS

\* The Files of a run; each owns its descriptor and its disk manager.
Files == {1, 2}
\* The paths of the file system the Files are opened on.
Paths == {1, 2}
Ids == 1 .. MaxActions

VARIABLES
    fs,            \* [Paths -> path state]         what stat64/open find at a path
    path_of,       \* [Files -> Paths \cup {0}]     the path a File was constructed on
    file_exists,   \* [Files -> BOOLEAN]            linux_file_t::file_exists
    is_block,      \* [Files -> BOOLEAN]            linux_file_t::is_block
    file_size,     \* [Files -> 0 .. Word-1]        linux_file_t::file_size
    fd,            \* [Files -> Int]                linux_file_t::fd
    diskmgr,       \* [Files -> {"none","aio","pool"}]  linux_file_t::diskmgr
    act,           \* [Ids -> action record]        the action_t heap
    pending,       \* [Files -> Seq(Ids)]           conflict_resolver's queue
    active,        \* [Files -> SUBSET Ids]         conflict_resolver's in-flight ranges
    inflight,      \* [Files -> SUBSET Ids]         actions the backend is executing
    hist,          \* [Ids -> Seq(STRING)]          stages each action went through
    req,           \* [Ids -> request]              what the caller asked for, per call
    cbOrder,       \* Seq(callbacks)                on_io_complete calls, in order
    trace,         \* Seq(<<event, id>>)            events of the latest handler
    last,          \* the latest call: operation, arguments, outcome
    blocking,      \* the blocking call in progress, or NoCall
    halted         \* the process was terminated by a failed assertion / crash

vars == <<fs, path_of, file_exists, is_block, file_size, fd, diskmgr, act, pending, active,
          inflight, hist, req, cbOrder, trace, last, blocking, halted>>

fileVars == <<fs, path_of, file_exists, is_block, file_size, fd, diskmgr>>
pipeVars == <<act, pending, active, inflight, hist, cbOrder>>

(***************************************************************************)
(* Helpers.                                                                *)
(***************************************************************************)
SeqRange(s) == {s[i] : i \in 1 .. Len(s)}

IndexOf(s, x) == CHOOSE i \in 1 .. Len(s) : s[i] = x

Count(s, x) == Cardinality({i \in 1 .. Len(s) : s[i] = x})

NoAction == [st |-> "unalloc", kind |-> "none", fd |-> INVALID_FD, buf |-> 0,
             count |-> 0, offset |-> 0, cb |-> 0]

NoRequest == [kind |-> "none", f |-> 0, offset |-> 0, length |-> 0]

NoCall == [op |-> "none", offset |-> 0, length |-> 0, buf |-> 0, tries |-> 0]

\* The pipeline state a handler works on, and its write-back.
Pipe == [act |-> act, pending |-> pending, active |-> active, inflight |-> inflight,
         hist |-> hist, cbOrder |-> cbOrder, trace |-> <<>>]

Commit(P) ==
    /\ act' = P.act
    /\ pending' = P.pending
    /\ active' = P.active
    /\ inflight' = P.inflight
    /\ hist' = P.hist
    /\ cbOrder' = P.cbOrder
    /\ trace' = P.trace

\* A stage handles action a: recorded in the handler's trace and in a's history.
Emit(P, ev, a) ==
    [P EXCEPT !.trace = Append(@, <<ev, a>>), !.hist[a] = Append(@, ev)]

\* Byte ranges [offset, offset+count) of two actions on one descriptor meet.
Overlap(x, y) ==
    /\ x.fd = y.fd
    /\ x.offset < y.offset + y.count
    /\ y.offset < x.offset + x.count


(***************************************************************************)
(* Backend (AsyncBackend / PooledBackend), design document 4.4: submit     *)
(* starts the operation and returns; the completion is delivered later,    *)
(* from the event loop, through done_fun.                                  *)
(***************************************************************************)
backend_submit(P, f, a) ==
    Emit([P EXCEPT !.inflight[f] = @ \cup {a}], "backend_submit", a)

\* Faulty variant of done: the callback is invoked and the action is never deleted.
done_without_delete(P, f, a) ==
    LET Q1 == Emit(P, "dm_done", a)
    IN  Emit([Q1 EXCEPT !.cbOrder = Append(@, Q1.act[a].cb)], "callback", a)

(***************************************************************************)
(* linux_templated_disk_manager_t::done: invoke the caller's callback,     *)
(* then delete the action.                                                 *)
(***************************************************************************)
done(P, f, a) ==
    LET Q1 == Emit(P, "dm_done", a)
        Q2 == Emit([Q1 EXCEPT !.cbOrder = Append(@, Q1.act[a].cb)], "callback", a)
    IN  Emit([Q2 EXCEPT !.act[a].st = "freed"], "free", a)

(***************************************************************************)
(* The constructor's wiring of the done direction (disk.cc:54-56) and the  *)
(* stages it connects.                                                     *)
(***************************************************************************)
\* stats.done_fun = bind(&linux_templated_disk_manager_t::done, this, _1)
stats_done_fun(P, f, a) == done(P, f, a)

\* StatsCollector.done, design document 4.5: record, forward unchanged.
stats_done(P, f, a) == stats_done_fun(Emit(P, "stats_done", a), f, a)

\* Faulty wiring: conflict_resolver.done_fun bound to the manager's done, past stats.
conflict_resolver_done_fun_to_done(P, f, a) == done(P, f, a)

\* conflict_resolver.done_fun = bind(&stats_t::done, &stats, _1)
conflict_resolver_done_fun(P, f, a) == stats_done(P, f, a)

\* Faulty wiring: conflict_resolver.submit_fun bound to the manager's done.
conflict_resolver_submit_fun_to_done(P, f, a) == done(P, f, a)

\* conflict_resolver.submit_fun = bind(&backend_t::submit, &backend, _1)
conflict_resolver_submit_fun(P, f, a) == backend_submit(P, f, a)

(***************************************************************************)
(* ConflictResolver, design document 4.3.  An action is held back by every *)
(* overlapping action of the same descriptor that the resolver accepted    *)
(* before it and that is not done yet: one at the backend or one queued    *)
(* ahead of it (active holds the ranges the resolver forwarded and has not *)
(* seen done).  This is the reading of "in-flight" under which the         *)
(* section's FIFO policy ("no reordering") and section 5's strict FIFO     *)
(* order of conflicting completions hold.                                  *)
(***************************************************************************)
conflict_resolver_submit(P, f, a) ==
    LET Q == Emit(P, "cr_submit", a)
        ahead == Q.active[f] \cup SeqRange(Q.pending[f])
    IN  IF \E b \in ahead : Overlap(Q.act[a], Q.act[b])
        THEN [Q EXCEPT !.pending[f] = Append(@, a)]
        ELSE conflict_resolver_submit_fun([Q EXCEPT !.active[f] = @ \cup {a}], f, a)

\* The queue is scanned in submission order; a waiter is released when nothing
\* at the backend and nothing still queued ahead of it overlaps it.
RECURSIVE ReleaseWaiters(_, _, _, _)
ReleaseWaiters(P, f, queue, kept) ==
    IF queue = <<>>
    THEN [P EXCEPT !.pending[f] = kept]
    ELSE LET w == Head(queue)
             ahead == P.active[f] \cup SeqRange(kept)
         IN  IF \E b \in ahead : Overlap(P.act[w], P.act[b])
             THEN ReleaseWaiters(P, f, Tail(queue), Append(kept, w))
             ELSE ReleaseWaiters(
                      conflict_resolver_submit_fun(
                          [P EXCEPT !.active[f] = @ \cup {w}], f, w),
                      f, Tail(queue), kept)

\* Faulty variant of conflict_resolver_done: the waiters are not released.
conflict_resolver_done_without_release(P, f, a) ==
    conflict_resolver_done_fun(
        Emit([P EXCEPT !.active[f] = @ \ {a}], "cr_done", a), f, a)

\* done: the range is no longer in flight, the waiters it blocked are released
\* to the backend, then the completion is passed on (design document 2).
conflict_resolver_done(P, f, a) ==
    LET Q1 == Emit([P EXCEPT !.active[f] = @ \ {a}], "cr_done", a)
        Q2 == ReleaseWaiters(Q1, f, Q1.pending[f], <<>>)
    IN  conflict_resolver_done_fun(Q2, f, a)

\* Faulty wiring: backend.done_fun bound to stats.done, past the conflict resolver.
backend_done_fun_to_stats(P, f, a) == stats_done(P, f, a)

\* backend.done_fun = bind(&conflict_resolver_t::done, &conflict_resolver, _1)
backend_done_fun(P, f, a) == conflict_resolver_done(P, f, a)

\* The backend reports the completion of a, success or failure alike.
backend_done(P, f, a) ==
    backend_done_fun(Emit([P EXCEPT !.inflight[f] = @ \ {a}], "backend_done", a), f, a)

(***************************************************************************)
(* The submit direction (disk.cc:52-53, 59-71).                            *)
(***************************************************************************)
\* Faulty wiring: stats.submit_fun bound to backend.submit, past the conflict resolver.
stats_submit_fun_to_backend(P, f, a) == backend_submit(P, f, a)

\* stats.submit_fun = bind(&conflict_resolver_t::submit, &conflict_resolver, _1)
stats_submit_fun(P, f, a) == conflict_resolver_submit(P, f, a)

\* StatsCollector.submit, design document 4.5: record, forward unchanged.
stats_submit(P, f, a) == stats_submit_fun(Emit(P, "stats_submit", a), f, a)

\* new action_t: the first slot of the heap that was never allocated.
NewId(P) == CHOOSE a \in Ids :
                /\ P.act[a].st = "unalloc"
                /\ \A b \in Ids : P.act[b].st = "unalloc" => a <= b

CanAllocate == \E a \in Ids : act[a].st = "unalloc"

\* Faulty variant of submit_write: the action is made with offset 0.
submit_write_no_offset(P, f, fdesc, buf, count, offset, cb) ==
    LET a == NewId(P)
        Q == [P EXCEPT !.act[a] = [st |-> "live", kind |-> "write", fd |-> fdesc,
                                   buf |-> buf, count |-> count,
                                   offset |-> 0, cb |-> cb]]
    IN  stats_submit(Emit(Q, "alloc", a), f, a)

\* Faulty variant of submit_write: the action is handed to the backend directly.
submit_write_to_backend(P, f, fdesc, buf, count, offset, cb) ==
    LET a == NewId(P)
        Q == [P EXCEPT !.act[a] = [st |-> "live", kind |-> "write", fd |-> fdesc,
                                   buf |-> buf, count |-> count,
                                   offset |-> offset, cb |-> cb]]
    IN  backend_submit(Emit(Q, "alloc", a), f, a)

submit_write(P, f, fdesc, buf, count, offset, cb) ==
    LET a == NewId(P)
        Q == [P EXCEPT !.act[a] = [st |-> "live", kind |-> "write", fd |-> fdesc,
                                   buf |-> buf, count |-> count,
                                   offset |-> offset, cb |-> cb]]
    IN  stats_submit(Emit(Q, "alloc", a), f, a)

\* Faulty variant of submit_read: the action is handed to the backend directly.
submit_read_to_backend(P, f, fdesc, buf, count, offset, cb) ==
    LET a == NewId(P)
        Q == [P EXCEPT !.act[a] = [st |-> "live", kind |-> "read", fd |-> fdesc,
                                   buf |-> buf, count |-> count,
                                   offset |-> offset, cb |-> cb]]
    IN  backend_submit(Emit(Q, "alloc", a), f, a)

submit_read(P, f, fdesc, buf, count, offset, cb) ==
    LET a == NewId(P)
        Q == [P EXCEPT !.act[a] = [st |-> "live", kind |-> "read", fd |-> fdesc,
                                   buf |-> buf, count |-> count,
                                   offset |-> offset, cb |-> cb]]
    IN  stats_submit(Emit(Q, "alloc", a), f, a)

(***************************************************************************)
(* linux_file_t.                                                           *)
(***************************************************************************)
\* size_t arithmetic.
WordAdd(x, y) == (x + y) % Word

\* utils2.hpp (outside disk.cc), design document 4.1: value rounded up to a
\* multiple of alignment, computed in size_t.
ceil_aligned(value, alignment) ==
    LET x == WordAdd(value, alignment - 1) IN x - (x % alignment)

\* Faulty variant of verify: rassert(offset % DEVICE_BLOCK_SIZE == 0) is missing.
verify_without_offset_alignment(offset, length, buf, size) ==
    /\ buf # 0
    /\ WordAdd(offset, length) <= size
    /\ buf % DEVICE_BLOCK_SIZE = 0
    /\ length % DEVICE_BLOCK_SIZE = 0

\* linux_file_t::verify: TRUE when every rassert passes.  offset + length is
\* a size_t sum.
verify(offset, length, buf, size) ==
    /\ buf # 0
    /\ WordAdd(offset, length) <= size
    /\ buf % DEVICE_BLOCK_SIZE = 0
    /\ offset % DEVICE_BLOCK_SIZE = 0
    /\ length % DEVICE_BLOCK_SIZE = 0

\* ftruncate(fd, size): its length is an off_t, so a size_t with the top bit
\* set is negative and fails with EINVAL; otherwise the OS may still fail.
ftruncate(size, os_ok) == os_ok /\ size < Word \div 2

\* Faulty variant of set_size: rassert(!is_block) is missing.
set_size_on_any_file(f, size, os_ok) ==
    IF ~ftruncate(size, os_ok)
    THEN [end |-> "fatal", size |-> file_size[f], calls |-> <<<<"ftruncate", size>>>>]
    ELSE [end |-> "ok", size |-> size, calls |-> <<<<"ftruncate", size>>>>]

\* linux_file_t::set_size.  The result names how the call ended and the size
\* the File then holds.
set_size(f, size, os_ok) ==
    IF is_block[f]
    THEN [end |-> "assert", size |-> file_size[f], calls |-> <<>>]
    ELSE IF ~ftruncate(size, os_ok)
    THEN [end |-> "fatal", size |-> file_size[f], calls |-> <<<<"ftruncate", size>>>>]
    ELSE [end |-> "ok", size |-> size, calls |-> <<<<"ftruncate", size>>>>]

\* Faulty variant of set_size_at_least: a block device is grown like a file.
set_size_at_least_on_any_file(f, size, os_ok) ==
    IF file_size[f] < size
    THEN set_size_on_any_file(f, ceil_aligned(size, GrowthChunk), os_ok)
    ELSE [end |-> "ok", size |-> file_size[f], calls |-> <<>>]

\* linux_file_t::set_size_at_least.
set_size_at_least(f, size, os_ok) ==
    IF is_block[f]
    THEN IF file_size[f] >= size
         THEN [end |-> "ok", size |-> file_size[f], calls |-> <<>>]
         ELSE [end |-> "assert", size |-> file_size[f], calls |-> <<>>]
    ELSE IF file_size[f] < size
         THEN set_size(f, ceil_aligned(size, GrowthChunk), os_ok)
         ELSE [end |-> "ok", size |-> file_size[f], calls |-> <<>>]

\* linux_file_t::read_async after verify: forward to the disk manager, return false.
read_async(P, f, offset, length, buf, callback) ==
    LET Q == submit_read(P, f, fd[f], buf, length, offset, callback)
    IN  [Q EXCEPT !.trace = Append(@, <<"return_false", callback>>)]

\* linux_file_t::write_async after verify.
write_async(P, f, offset, length, buf, callback) ==
    LET Q == submit_write(P, f, fd[f], buf, length, offset, callback)
    IN  [Q EXCEPT !.trace = Append(@, <<"return_false", callback>>)]

(***************************************************************************)
(* linux_file_t::linux_file_t.  path is what stat64, open and the size     *)
(* query find: stat is "ok", "enoent" or "error"; block and size describe  *)
(* the file; openable and measurable say whether open and the size query   *)
(* succeed.  mode is the set of requested mode_* flags; thread is          *)
(* linux_thread_pool_t::thread being set; newfd is the descriptor open     *)
(* returns; uninit holds the indeterminate values of the members the       *)
(* constructor leaves unassigned when it returns early.  The result names  *)
(* how the constructor ended, the members, the flags passed to open and    *)
(* whether open created the file.                                          *)
(***************************************************************************)
\* Faulty variant of AccessFlags: mode_write alone decides, O_RDWR is never chosen.
AccessFlags_write_first(mode) ==
    IF "write" \in mode THEN {"O_WRONLY"}
    ELSE IF "read" \in mode THEN {"O_RDONLY"}
    ELSE {}

\* The access flag chosen from the mode; none when the mode asks for neither
\* reading nor writing.
AccessFlags(mode) ==
    IF "write" \in mode /\ "read" \in mode THEN {"O_RDWR"}
    ELSE IF "write" \in mode THEN {"O_WRONLY"}
    ELSE IF "read" \in mode THEN {"O_RDONLY"}
    ELSE {}

\* Faulty variant of StopsEarly: the constructor never returns after stat64.
StopsEarly_never(path, mode) == FALSE

\* res == -1 && errno == ENOENT and mode_create not requested.
StopsEarly(path, mode) == path.stat = "enoent" /\ "create" \notin mode

\* Faulty variant of NewDiskManager: the backend flag is not looked at.
NewDiskManager_always_aio(io_backend, thread) ==
    IF ~thread THEN "none" ELSE "aio"

\* The disk manager the constructor makes: none without a thread-pool thread.
NewDiskManager(io_backend, thread) ==
    IF ~thread THEN "none"
    ELSE IF io_backend = "aio_native" THEN "aio"
    ELSE "pool"

linux_file_t(path, mode, is_really_direct, io_backend, thread, newfd, uninit) ==
    LET early == [end |-> "ok", file_exists |-> FALSE, is_block |-> uninit.is_block,
                  file_size |-> uninit.file_size, fd |-> INVALID_FD,
                  diskmgr |-> "none", flags |-> {}, created |-> FALSE]
        block == IF path.stat = "enoent" THEN FALSE ELSE path.block
        flags == {"O_CREAT", "O_LARGEFILE"}
                 \cup (IF is_really_direct THEN {"O_DIRECT"} ELSE {})
                 \cup AccessFlags(mode)
                 \cup (IF ~block THEN {"O_NOATIME"} ELSE {})
        creates == path.stat = "enoent"
    IN  IF path.stat = "error" THEN [early EXCEPT !.end = "fatal"]
        ELSE IF StopsEarly(path, mode) THEN early
        ELSE IF AccessFlags(mode) = {}
             THEN [early EXCEPT !.end = "crash", !.is_block = block]
        ELSE IF ~path.openable
             THEN [early EXCEPT !.end = "user_error", !.is_block = block,
                                !.flags = flags]
        ELSE IF ~path.measurable
             THEN [early EXCEPT !.end = "fatal", !.file_exists = TRUE,
                                !.is_block = block, !.fd = newfd,
                                !.flags = flags, !.created = creates]
        ELSE [end |-> "ok", file_exists |-> TRUE, is_block |-> block,
              file_size |-> IF creates THEN 0 ELSE path.size, fd |-> newfd,
              diskmgr |-> NewDiskManager(io_backend, thread),
              flags |-> flags, created |-> creates]

RegularFile(size) == [stat |-> "ok", block |-> FALSE, size |-> size,
                      openable |-> TRUE, measurable |-> TRUE]
BlockDevice(size) == [stat |-> "ok", block |-> TRUE, size |-> size,
                      openable |-> TRUE, measurable |-> TRUE]
MissingPath == [stat |-> "enoent", block |-> FALSE, size |-> 0,
                openable |-> TRUE, measurable |-> TRUE]

\* What the path is after the constructor ran: open with O_CREAT made a
\* regular file of size 0 where there was none.
AfterOpen(path, opened) == IF opened.created THEN RegularFile(0) ELSE path

\* The members of a File object before its constructor ran.
NoFile == [file_exists |-> FALSE, is_block |-> FALSE, file_size |-> 0,
           fd |-> INVALID_FD, diskmgr |-> "none"]

NoOpen == [path |-> 0, mode |-> {}, io_backend |-> "none", thread |-> FALSE,
           flags |-> {}, created |-> FALSE]

NoLast == [op |-> "none", f |-> 0, offset |-> 0, length |-> 0, buf |-> 0,
           n |-> 0, before |-> 0, result |-> "ok", open |-> NoOpen]

\* The state after File f was constructed on path f, for every f: before is
\* the file system the constructors found, opened their results.
Opened(before, opened) ==
    /\ fs = [p \in Paths |-> AfterOpen(before[p], opened[p])]
    /\ path_of = [f \in Files |-> f]
    /\ file_exists = [f \in Files |-> opened[f].file_exists]
    /\ is_block = [f \in Files |-> opened[f].is_block]
    /\ file_size = [f \in Files |-> opened[f].file_size]
    /\ fd = [f \in Files |-> opened[f].fd]
    /\ diskmgr = [f \in Files |-> opened[f].diskmgr]
    /\ act = [a \in Ids |-> NoAction]
    /\ pending = [f \in Files |-> <<>>]
    /\ active = [f \in Files |-> {}]
    /\ inflight = [f \in Files |-> {}]
    /\ hist = [a \in Ids |-> <<>>]
    /\ req = [a \in Ids |-> NoRequest]
    /\ cbOrder = <<>>
    /\ trace = <<>>
    /\ last = NoLast
    /\ blocking = NoCall
    /\ halted = FALSE

(***************************************************************************)
(* Operations.  A failed rassert, crash or guarantee_err terminates the    *)
(* process: halted, and nothing runs afterwards.  While a blocking call is *)
(* in progress the thread runs nothing else.                               *)
(***************************************************************************)
Running == ~halted /\ blocking = NoCall

Call(op, f, offset, length, buf, n, result) ==
    [op |-> op, f |-> f, offset |-> offset, length |-> length, buf |-> buf,
     n |-> n, before |-> file_size[f], result |-> result, open |-> NoOpen]

\* The call fails by assertion: the process stops where it is.
Aborts(call) ==
    /\ halted' = TRUE
    /\ last' = call
    /\ trace' = <<>>
    /\ UNCHANGED <<fileVars, pipeVars, req, blocking>>

\* A File object is constructed on path p.
Open(f, p, mode, is_really_direct, io_backend, thread, uninit) ==
    /\ Running /\ path_of[f] = 0
    /\ LET r == linux_file_t(fs[p], mode, is_really_direct, io_backend, thread,
                             f + 2, uninit)
       IN  /\ fs' = [fs EXCEPT ![p] = AfterOpen(@, r)]
           /\ file_exists' = [file_exists EXCEPT ![f] = r.file_exists]
           /\ is_block' = [is_block EXCEPT ![f] = r.is_block]
           /\ file_size' = [file_size EXCEPT ![f] = r.file_size]
           /\ fd' = [fd EXCEPT ![f] = r.fd]
           /\ diskmgr' = [diskmgr EXCEPT ![f] = r.diskmgr]
           /\ halted' = (r.end # "ok")
           /\ last' = [Call("open", f, 0, 0, 0, 0, r.end) EXCEPT
                          !.open = [path |-> fs[p], mode |-> mode,
                                    io_backend |-> io_backend, thread |-> thread,
                                    flags |-> r.flags, created |-> r.created]]
    /\ path_of' = [path_of EXCEPT ![f] = p]
    /\ trace' = <<>>
    /\ UNCHANGED <<pipeVars, req, blocking>>

\* diskmgr->submit_* on a File that has no disk manager: a call through a
\* null scoped_ptr, undefined behaviour.  The builds either fault at the
\* call or run on without a disk manager to take the request.
NullCallOutcomes == {"segv", "skipped"}

NullCall(call) ==
    \E o \in NullCallOutcomes :
        /\ halted' = (o = "segv")
        /\ last' = [call EXCEPT !.result = o]
        /\ trace' = <<>>
        /\ UNCHANGED <<fileVars, pipeVars, req, blocking>>

ReadAsync(f, offset, length, buf) ==
    /\ Running /\ file_exists[f] /\ CanAllocate
    /\ IF ~verify(offset, length, buf, file_size[f])
       THEN Aborts(Call("read_async", f, offset, length, buf, 0, "assert"))
       ELSE IF diskmgr[f] = "none"
       THEN NullCall(Call("read_async", f, offset, length, buf, 0, "null"))
       ELSE /\ Commit(read_async(Pipe, f, offset, length, buf, NewId(Pipe)))
            /\ req' = [req EXCEPT ![NewId(Pipe)] = [kind |-> "read", f |-> f,
                                    offset |-> offset, length |-> length]]
            /\ last' = Call("read_async", f, offset, length, buf, 0, "returned")
            /\ UNCHANGED <<fileVars, blocking, halted>>

WriteAsync(f, offset, length, buf) ==
    /\ Running /\ file_exists[f] /\ CanAllocate
    /\ IF ~verify(offset, length, buf, file_size[f])
       THEN Aborts(Call("write_async", f, offset, length, buf, 0, "assert"))
       ELSE IF diskmgr[f] = "none"
       THEN NullCall(Call("write_async", f, offset, length, buf, 0, "null"))
       ELSE /\ Commit(write_async(Pipe, f, offset, length, buf, NewId(Pipe)))
            /\ req' = [req EXCEPT ![NewId(Pipe)] = [kind |-> "write", f |-> f,
                                    offset |-> offset, length |-> length]]
            /\ last' = Call("write_async", f, offset, length, buf, 0, "returned")
            /\ UNCHANGED <<fileVars, blocking, halted>>

\* The event loop delivers the backend's completion of a; io is the outcome
\* of the I/O, which no stage inspects.
BackendDone(f, a, io) ==
    /\ Running /\ a \in inflight[f]
    /\ Commit(backend_done(Pipe, f, a))
    /\ last' = Call("backend_done", f, act[a].offset, act[a].count, act[a].buf, 0, io)
    /\ UNCHANGED <<fileVars, req, blocking, halted>>

\* What a set_size that ended as r leaves at the File's path: a successful
\* ftruncate gave the file its new length.
Truncated(f, r) ==
    IF r.end = "ok" /\ r.calls # <<>>
    THEN [fs EXCEPT ![path_of[f]].size = r.size]
    ELSE fs

SetSize(f, n, os_ok) ==
    /\ Running /\ file_exists[f]
    /\ LET r == set_size(f, n, os_ok)
       IN  /\ file_size' = [file_size EXCEPT ![f] = r.size]
           /\ fs' = Truncated(f, r)
           /\ halted' = (r.end # "ok")
           /\ trace' = r.calls
           /\ last' = Call("set_size", f, 0, 0, 0, n, r.end)
    /\ UNCHANGED <<path_of, file_exists, is_block, fd, diskmgr, pipeVars, req, blocking>>

SetSizeAtLeast(f, n, os_ok) ==
    /\ Running /\ file_exists[f]
    /\ LET r == set_size_at_least(f, n, os_ok)
       IN  /\ file_size' = [file_size EXCEPT ![f] = r.size]
           /\ fs' = Truncated(f, r)
           /\ halted' = (r.end # "ok")
           /\ trace' = r.calls
           /\ last' = Call("set_size_at_least", f, 0, 0, 0, n, r.end)
    /\ UNCHANGED <<path_of, file_exists, is_block, fd, diskmgr, pipeVars, req, blocking>>

\* Faulty variant of BlockingCall: the call waits until no uncompleted action
\* of the File overlaps its range.
BlockingCall_behind_async(op, f, offset, length, buf) ==
    /\ Running /\ file_exists[f]
    /\ \A a \in inflight[f] \cup SeqRange(pending[f]) :
          ~(act[a].offset < offset + length /\ offset < act[a].offset + act[a].count)
    /\ IF verify(offset, length, buf, file_size[f])
       THEN /\ blocking' = [op |-> op, offset |-> offset, length |-> length,
                            buf |-> buf, tries |-> 0]
            /\ last' = Call(op, f, offset, length, buf, 0, "verified")
            /\ trace' = <<>>
            /\ UNCHANGED <<fileVars, pipeVars, req, halted>>
       ELSE Aborts(Call(op, f, offset, length, buf, 0, "assert"))

\* read_blocking / write_blocking up to the tryagain label.
BlockingCall(op, f, offset, length, buf) ==
    /\ Running /\ file_exists[f]
    /\ IF verify(offset, length, buf, file_size[f])
       THEN /\ blocking' = [op |-> op, offset |-> offset, length |-> length,
                            buf |-> buf, tries |-> 0]
            /\ last' = Call(op, f, offset, length, buf, 0, "verified")
            /\ trace' = <<>>
            /\ UNCHANGED <<fileVars, pipeVars, req, halted>>
       ELSE Aborts(Call(op, f, offset, length, buf, 0, "assert"))

ReadBlocking(f, offset, length, buf) ==
    BlockingCall("read_blocking", f, offset, length, buf)

WriteBlocking(f, offset, length, buf) ==
    BlockingCall("write_blocking", f, offset, length, buf)

\* What one pread/pwrite may answer: res, and whether errno is EINTR.  An
\* offset with the top bit set is a negative off_t: EINVAL.
SyscallResults(b) ==
    IF b.offset >= Word \div 2
    THEN {[res |-> -1, eintr |-> FALSE]}
    ELSE {[res |-> -1, eintr |-> TRUE], [res |-> -1, eintr |-> FALSE],
          [res |-> b.length, eintr |-> FALSE]}
         \cup (IF b.length > 0 THEN {[res |-> 0, eintr |-> FALSE]} ELSE {})

\* The system call of one pass and its answer, as the events of the pass.
SyscallTrace(b, r) ==
    <<<<IF b.op = "read_blocking" THEN "pread" ELSE "pwrite", b.offset>>,
      <<"length", b.length>>, <<"buf", b.buf>>,
      <<"res", r.res>>, <<"eintr", IF r.eintr THEN 1 ELSE 0>>>>

\* Faulty variant of BlockingStep: the errno test is missing, every failed
\* call is reissued.
BlockingStep_retrying_every_error(f, r) ==
    /\ ~halted /\ blocking # NoCall /\ last.f = f
    /\ r \in SyscallResults(blocking)
    /\ trace' = SyscallTrace(blocking, r)
    /\ IF r.res = -1
       THEN /\ blocking.tries < MaxEintr
            /\ blocking' = [blocking EXCEPT !.tries = @ + 1]
            /\ last' = [last EXCEPT !.result = "eintr"]
            /\ UNCHANGED halted
       ELSE IF r.res % Word = blocking.length
       THEN /\ blocking' = NoCall
            /\ last' = [last EXCEPT !.result = "ok"]
            /\ UNCHANGED halted
       ELSE /\ halted' = TRUE
            /\ last' = [last EXCEPT !.result = "assert"]
            /\ UNCHANGED blocking
    /\ UNCHANGED <<fileVars, pipeVars, req>>

\* One pass from tryagain: the system call, the EINTR test, the rassert.
BlockingStep(f, r) ==
    /\ ~halted /\ blocking # NoCall /\ last.f = f
    /\ r \in SyscallResults(blocking)
    /\ trace' = SyscallTrace(blocking, r)
    /\ IF r.res = -1 /\ r.eintr
       THEN /\ blocking.tries < MaxEintr
            /\ blocking' = [blocking EXCEPT !.tries = @ + 1]
            /\ last' = [last EXCEPT !.result = "eintr"]
            /\ UNCHANGED halted
       ELSE IF r.res % Word = blocking.length
       THEN /\ blocking' = NoCall
            /\ last' = [last EXCEPT !.result = "ok"]
            /\ UNCHANGED halted
       ELSE /\ halted' = TRUE
            /\ last' = [last EXCEPT !.result = "assert"]
            /\ UNCHANGED blocking
    /\ UNCHANGED <<fileVars, pipeVars, req>>

(***************************************************************************)
(* The pipeline specification: two regular Files of two blocks, one on the *)
(* native-AIO backend and one on the pooled backend, opened read-write     *)
(* inside a thread-pool thread; the caller submits aligned reads and       *)
(* writes and the backends complete them in any order.                     *)
(***************************************************************************)
Offsets == {0, DEVICE_BLOCK_SIZE}
Lengths == {DEVICE_BLOCK_SIZE, 2 * DEVICE_BLOCK_SIZE}
Buffers == {8 * DEVICE_BLOCK_SIZE}
IoResults == {"io_ok", "io_fail"}

\* The values the unassigned members may hold.
Uninit == {[is_block |-> FALSE, file_size |-> 0],
           [is_block |-> TRUE, file_size |-> DEVICE_BLOCK_SIZE]}

Init ==
    LET before == [p \in Paths |-> RegularFile(2 * DEVICE_BLOCK_SIZE)]
    IN  \E uninit \in Uninit :
            Opened(before,
                   [f \in Files |->
                      linux_file_t(before[f], {"read", "write"}, TRUE,
                                   IF f = 1 THEN "aio_native" ELSE "pool", TRUE,
                                   f + 2, uninit)])

Next ==
    \E f \in Files :
        \/ \E offset \in Offsets, length \in Lengths, buf \in Buffers :
              ReadAsync(f, offset, length, buf)
        \/ \E offset \in Offsets, length \in Lengths, buf \in Buffers :
              WriteAsync(f, offset, length, buf)
        \/ \E a \in Ids, io \in IoResults : BackendDone(f, a, io)

Spec == Init /\ [][Next]_vars

(***************************************************************************)
(* The unbounded run: the caller keeps submitting.  operator new hands out *)
(* the storage of a deleted action again; the histories kept for that slot *)
(* start afresh.  The backend eventually reports every action handed to it *)
(* (design document 4.4: on completion, success or failure, done is        *)
(* invoked exactly once), which is the fairness of FairSpec.               *)
(***************************************************************************)
Recycle(a) ==
    /\ Running /\ act[a].st = "freed"
    /\ act' = [act EXCEPT ![a] = NoAction]
    /\ hist' = [hist EXCEPT ![a] = <<>>]
    /\ req' = [req EXCEPT ![a] = NoRequest]
    /\ cbOrder' = SelectSeq(cbOrder, LAMBDA x : x # a)
    /\ trace' = <<>>
    /\ last' = [NoLast EXCEPT !.op = "new"]
    /\ UNCHANGED <<fileVars, pending, active, inflight, blocking, halted>>

LiveFiles == {1}

NextLive ==
    \/ \E f \in LiveFiles :
          \/ \E offset \in Offsets, length \in Lengths, buf \in Buffers :
                ReadAsync(f, offset, length, buf)
          \/ \E offset \in Offsets, length \in Lengths, buf \in Buffers :
                WriteAsync(f, offset, length, buf)
          \/ \E a \in Ids, io \in IoResults : BackendDone(f, a, io)
    \/ \E a \in Ids : Recycle(a)

FairSpec ==
    /\ Init
    /\ [][NextLive]_vars
    /\ \A f \in LiveFiles, a \in Ids :
          WF_vars(\E io \in IoResults : BackendDone(f, a, io))

(***************************************************************************)
(* The file specification: one File, a regular file or a block device,     *)
(* with every linux_file_t operation; the arguments include misaligned     *)
(* values, a null buffer and values next to the top of size_t.  The second *)
(* File is the result of opening a missing path without mode_create.       *)
(***************************************************************************)
OpenedPaths == {RegularFile(0), RegularFile(GrowthChunk), BlockDevice(GrowthChunk)}
SizeArgs == {0, DEVICE_BLOCK_SIZE, GrowthChunk, GrowthChunk + 1, Word \div 2,
             Word - GrowthChunk, Word - GrowthChunk + 1, Word - 1,
             1000000 + 4096}
\* Requests: valid ones, then one per way of being invalid, then two whose
\* offset + length passes the top of size_t.
Aligned == 8 * DEVICE_BLOCK_SIZE
Request(offset, length, buf) == [offset |-> offset, length |-> length, buf |-> buf]
\* The write of the design document's growth scenario (offset 1,000,000, one
\* block long, the block being the device block or the scenario's 4096), and
\* the same write moved down to the nearest multiple of the device block size.
ScenarioWrites ==
    {Request(1000000, length, Aligned) : length \in {DEVICE_BLOCK_SIZE, 4096}}
AlignedScenarioWrites ==
    {Request(1000000 - (1000000 % DEVICE_BLOCK_SIZE), length, Aligned) :
        length \in {DEVICE_BLOCK_SIZE, 4096}}
FileRequests ==
    {Request(0, DEVICE_BLOCK_SIZE, Aligned),
     Request(DEVICE_BLOCK_SIZE, DEVICE_BLOCK_SIZE, Aligned),
     Request(0, DEVICE_BLOCK_SIZE, 0),
     Request(0, DEVICE_BLOCK_SIZE, Aligned + 1),
     Request(1, DEVICE_BLOCK_SIZE, Aligned),
     Request(0, 1, Aligned),
     Request(GrowthChunk, DEVICE_BLOCK_SIZE, Aligned),
     Request(Word - DEVICE_BLOCK_SIZE, DEVICE_BLOCK_SIZE, Aligned),
     Request(Word - DEVICE_BLOCK_SIZE, 2 * DEVICE_BLOCK_SIZE, Aligned)}
    \cup ScenarioWrites \cup AlignedScenarioWrites

InitFile ==
    \E path \in OpenedPaths, uninit \in Uninit :
        LET before == [p \in Paths |-> IF p = 1 THEN path ELSE MissingPath]
        IN  Opened(before,
                   [f \in Files |->
                      linux_file_t(before[f], {"read", "write"}, TRUE, "aio_native",
                                   TRUE, f + 2, uninit)])

\* The caller of this specification issues one asynchronous request per run.
NoneSubmitted == \A a \in Ids : act[a].st = "unalloc"

NextFile ==
    \E f \in Files :
        \/ \E n \in SizeArgs, os_ok \in BOOLEAN : SetSize(f, n, os_ok)
        \/ \E n \in SizeArgs, os_ok \in BOOLEAN : SetSizeAtLeast(f, n, os_ok)
        \/ \E r \in FileRequests : ReadBlocking(f, r.offset, r.length, r.buf)
        \/ \E r \in FileRequests : WriteBlocking(f, r.offset, r.length, r.buf)
        \/ \E r \in SyscallResults(blocking) : BlockingStep(f, r)
        \/ \E r \in FileRequests :
              NoneSubmitted /\ ReadAsync(f, r.offset, r.length, r.buf)
        \/ \E r \in FileRequests :
              NoneSubmitted /\ WriteAsync(f, r.offset, r.length, r.buf)
        \/ \E a \in Ids, io \in IoResults : BackendDone(f, a, io)

SpecFile == InitFile /\ [][NextFile]_vars

(***************************************************************************)
(* The blocking specification: the caller makes blocking reads and writes  *)
(* only.  A call in progress is not interrupted forever: the system call   *)
(* eventually answers something other than EINTR, which is the fairness of *)
(* FairSpecBlocking.                                                       *)
(***************************************************************************)
NextBlocking ==
    \E f \in Files :
        \/ \E r \in FileRequests : ReadBlocking(f, r.offset, r.length, r.buf)
        \/ \E r \in FileRequests : WriteBlocking(f, r.offset, r.length, r.buf)
        \/ \E r \in SyscallResults(blocking) : BlockingStep(f, r)

NotInterrupted ==
    \E f \in Files, r \in SyscallResults(blocking) :
        ~(r.res = -1 /\ r.eintr) /\ BlockingStep(f, r)

FairSpecBlocking ==
    /\ InitFile
    /\ [][NextBlocking]_vars
    /\ WF_vars(NotInterrupted)

(***************************************************************************)
(* The open specification: the Files are constructed in the run, on paths  *)
(* that are missing, regular files, block devices, not openable, or that   *)
(* stat64 cannot examine, with every combination of mode flags, with       *)
(* either backend flag, inside or outside a thread-pool thread.  Two Files *)
(* may be constructed on one path.  Each opened File then takes a valid    *)
(* asynchronous request.                                                   *)
(***************************************************************************)
Unopenable == [RegularFile(DEVICE_BLOCK_SIZE) EXCEPT !.openable = FALSE]
Unexaminable == [RegularFile(DEVICE_BLOCK_SIZE) EXCEPT !.stat = "error"]
PathStates == {MissingPath, RegularFile(DEVICE_BLOCK_SIZE),
               BlockDevice(DEVICE_BLOCK_SIZE), Unopenable, Unexaminable}
Modes == SUBSET {"read", "write", "create"}
Backends == {"aio_native", "pool"}

InitOpen ==
    /\ fs \in [Paths -> PathStates]
    /\ fs[2] = MissingPath
    /\ path_of = [f \in Files |-> 0]
    /\ file_exists = [f \in Files |-> NoFile.file_exists]
    /\ is_block = [f \in Files |-> NoFile.is_block]
    /\ file_size = [f \in Files |-> NoFile.file_size]
    /\ fd = [f \in Files |-> NoFile.fd]
    /\ diskmgr = [f \in Files |-> NoFile.diskmgr]
    /\ act = [a \in Ids |-> NoAction]
    /\ pending = [f \in Files |-> <<>>]
    /\ active = [f \in Files |-> {}]
    /\ inflight = [f \in Files |-> {}]
    /\ hist = [a \in Ids |-> <<>>]
    /\ req = [a \in Ids |-> NoRequest]
    /\ cbOrder = <<>>
    /\ trace = <<>>
    /\ last = NoLast
    /\ blocking = NoCall
    /\ halted = FALSE

NextOpen ==
    \E f \in Files :
        \/ \E p \in Paths, mode \in Modes, is_really_direct \in BOOLEAN,
              io_backend \in Backends, thread \in BOOLEAN, uninit \in Uninit :
              Open(f, p, mode, is_really_direct, io_backend, thread, uninit)
        \/ NoneSubmitted /\ ReadAsync(f, 0, DEVICE_BLOCK_SIZE, Aligned)
        \/ NoneSubmitted /\ WriteAsync(f, 0, DEVICE_BLOCK_SIZE, Aligned)
        \/ \E a \in Ids, io \in IoResults : BackendDone(f, a, io)

SpecOpen == InitOpen /\ [][NextOpen]_vars

(***************************************************************************)
(* Vocabulary of the properties.  They speak of the requests as the caller *)
(* issued them (req) and of what the stages did (hist, trace, cbOrder).    *)
(***************************************************************************)
Submitted(a) == req[a].kind # "none"

\* The requests of a and b are on one File (one descriptor) and their byte
\* ranges [offset, offset+length) meet.
Conflict(a, b) ==
    /\ req[a].f = req[b].f
    /\ req[a].offset < req[b].offset + req[b].length
    /\ req[b].offset < req[a].offset + req[a].length

\* a was handed to Backend.submit and Backend.done has not reported it.
AtBackend(a) == Count(hist[a], "backend_submit") > Count(hist[a], "backend_done")

\* a is parked in a ConflictResolver's pending queue.
Parked(a) == \E f \in Files : a \in SeqRange(pending[f])

CallbackFired(a) == Count(hist[a], "callback") > 0

\* Positions of the handler's trace where stage ev handled a.
At(ev, a) == {i \in 1 .. Len(trace) : trace[i] = <<ev, a>>}

\* The action the latest read_async/write_async call allocated.
IsSubmitCall == last.op \in {"read_async", "write_async"} /\ last.result = "returned"
SubmittedNow == trace[1][2]

(***************************************************************************)
(* C1: at every reachable state no two actions on the same descriptor with *)
(* overlapping byte ranges are both in flight at the backend, whatever the *)
(* kinds (read/read, read/write, write/write) of the two.                  *)
(***************************************************************************)
C1_NoOverlapInFlight ==
    \A a, b \in Ids :
        (a # b /\ AtBackend(a) /\ AtBackend(b)) => ~Conflict(a, b)

\* A read overlapping a write in flight is held back while a third action on
\* a disjoint range is in flight beside the write.
C1_Witness ==
    \E a, b, c \in Ids :
        /\ AtBackend(a) /\ req[a].kind = "write"
        /\ Parked(b) /\ req[b].kind = "read" /\ Conflict(a, b)
        /\ AtBackend(c) /\ c # a /\ req[c].f = req[a].f

(***************************************************************************)
(* C2: per submit call the callback is invoked at most once; the action is *)
(* freed once, right after that callback and never without it; nothing     *)
(* touches the action after the free (the free is the last entry of its    *)
(* history and the action is in no queue and not at the backend); no       *)
(* action passes Backend.submit or DiskManager.done twice.                 *)
(***************************************************************************)
C2_OneCallbackOneFree ==
    \A a \in Ids :
        LET h == hist[a] IN
        /\ Count(h, "callback") <= 1
        /\ Count(cbOrder, a) = Count(h, "callback")
        /\ Count(h, "free") = Count(h, "callback")
        /\ Count(h, "backend_submit") <= 1
        /\ Count(h, "dm_done") <= 1
        /\ Count(h, "free") > 0 =>
              /\ h[Len(h)] = "free"
              /\ h[Len(h) - 1] = "callback"
              /\ act[a].st = "freed"
              /\ ~Parked(a)
              /\ \A f \in Files : a \notin inflight[f] /\ a \notin active[f]
        /\ act[a].st = "freed" => Count(h, "free") = 1

\* One action was completed and freed while a later one is still in the pipeline.
C2_Witness ==
    \E a, b \in Ids :
        /\ act[a].st = "freed" /\ CallbackFired(a)
        /\ act[b].st = "live" /\ AtBackend(b)

C7_NeverSynchronous ==
    /\ IsSubmitCall =>
          /\ trace[Len(trace)] = <<"return_false", SubmittedNow>>
          /\ \A i \in 1 .. Len(trace) : trace[i][1] # "callback"
          /\ ~CallbackFired(SubmittedNow)
    /\ (\E i \in 1 .. Len(trace) : trace[i][1] = "callback") => last.op = "backend_done"

\* An action that went straight to the pooled backend, after an action on the
\* native-AIO File had completed.
C7_Witness ==
    /\ IsSubmitCall
    /\ diskmgr[last.f] = "pool"
    /\ At("backend_submit", SubmittedNow) # {}
    /\ \E a \in Ids : Submitted(a) /\ diskmgr[req[a].f] = "aio" /\ CallbackFired(a)

(***************************************************************************)
(* C8, the statement checked against linux_file_t::verify: a read_async,   *)
(* write_async, read_blocking or write_blocking call whose buffer is null, *)
(* whose offset, length or buffer address is not a multiple of the device  *)
(* block size, or whose end offset + length (as a number, not a size_t)    *)
(* exceeds the file size fails by assertion with nothing done: no action   *)
(* allocated, no stage or backend invoked, no pread/pwrite issued.         *)
(***************************************************************************)
InvalidRequest(offset, length, buf, size) ==
    \/ buf = 0
    \/ buf % DEVICE_BLOCK_SIZE # 0
    \/ offset % DEVICE_BLOCK_SIZE # 0
    \/ length % DEVICE_BLOCK_SIZE # 0
    \/ offset + length > size

C8_InvalidRequestRejected ==
    (/\ last.op \in {"read_async", "write_async", "read_blocking", "write_blocking"}
     /\ InvalidRequest(last.offset, last.length, last.buf, last.before))
        => /\ last.result = "assert"
           /\ trace = <<>>
           /\ blocking = NoCall
           /\ \A a \in Ids : act[a].st = "unalloc"

(***************************************************************************)
(* C9, the statement checked against linux_file_t::set_size_at_least: on a *)
(* regular file, after set_size_at_least(n) returns, size >= n and size >= *)
(* the size before; size is unchanged if it was >= n already and otherwise *)
(* is the smallest multiple of the growth chunk that is >= n.              *)
(***************************************************************************)
SmallestChunkMultiple(n) == ((n + GrowthChunk - 1) \div GrowthChunk) * GrowthChunk

C9_SizeAtLeast ==
    (last.op = "set_size_at_least" /\ last.result = "ok" /\ ~is_block[last.f])
        => LET size == file_size[last.f] IN
           /\ size >= last.n
           /\ size >= last.before
           /\ last.before >= last.n => size = last.before
           /\ last.before < last.n => size = SmallestChunkMultiple(last.n)

(***************************************************************************)
(* C10.  Original statement: from one state to the next the size of a      *)
(* regular file never decreases and the size of a block device never       *)
(* changes.                                                                *)
(***************************************************************************)
C10_SizeNeverDecreases ==
    [][\A f \in Files :
          /\ file_size'[f] >= file_size[f]
          /\ is_block[f] => file_size'[f] = file_size[f]]_vars

(***************************************************************************)
(* C10 as amended: the size of a block device never changes after open.    *)
(* The size of a regular file changes only in a set_size call that         *)
(* returns, made directly (the size becomes exactly n, smaller or larger)  *)
(* or by set_size_at_least(n) when the size is below n; asynchronous and   *)
(* blocking reads and writes, completions, and set_size_at_least(n) with   *)
(* n <= size leave it unchanged.                                           *)
(***************************************************************************)
C10_SizeChangesOnlyBySetSize ==
    [][\A f \in Files :
          file_size'[f] # file_size[f] =>
              /\ ~is_block[f]
              /\ last'.f = f /\ last'.result = "ok" /\ last'.before = file_size[f]
              /\ \/ last'.op = "set_size" /\ file_size'[f] = last'.n
                 \/ last'.op = "set_size_at_least" /\ file_size[f] < last'.n]_vars

\* set_size made a regular file smaller, with a request accepted earlier still
\* at the backend.
C10_Witness ==
    /\ last.op = "set_size" /\ last.result = "ok"
    /\ ~is_block[last.f]
    /\ file_size[last.f] < last.before
    /\ \E a \in Ids : AtBackend(a)

(***************************************************************************)
(* C11, the statement checked against verify and set_size: in every state  *)
(* every accepted request whose callback has not fired (its action is      *)
(* pending in the conflict resolver or at the backend) has offset + length *)
(* (as a number) <= the current size of its File.                          *)
(***************************************************************************)
C11_AcceptedWithinSize ==
    \A a \in Ids :
        (Submitted(a) /\ ~CallbackFired(a))
            => req[a].offset + req[a].length <= file_size[req[a].f]

\* The two ways an accepted request ends beyond the size: its size_t sum
\* wrapped in verify, or the file was made smaller while it was in flight.
C11_AcceptedBeyondSizeByWrap ==
    /\ last.op \in {"read_async", "write_async"} /\ last.result = "returned"
    /\ last.offset + last.length > last.before

C11_AcceptedThenShrunk ==
    /\ last.op = "set_size" /\ last.result = "ok"
    /\ \E a \in Ids :
          /\ AtBackend(a) /\ req[a].f = last.f
          /\ req[a].offset + req[a].length <= last.before
          /\ req[a].offset + req[a].length > file_size[last.f]

(***************************************************************************)
(* C12.  Original statement: on a regular file, the scenario's write (one  *)
(* block at offset 1,000,000, aligned buffer) fails by assertion while the *)
(* size is 0, and once set_size_at_least(1,004,096) has grown the file it  *)
(* passes validation and is forwarded to the disk manager.                 *)
(***************************************************************************)
IsWriteOf(requests) ==
    /\ last.op = "write_async" /\ ~is_block[last.f]
    /\ Request(last.offset, last.length, last.buf) \in requests

Rejected ==
    /\ last.result = "assert" /\ halted
    /\ \A a \in Ids : act[a].st = "unalloc"

Forwarded ==
    /\ last.result = "returned" /\ ~halted
    /\ At("stats_submit", SubmittedNow) # {}
    /\ act[SubmittedNow].offset = last.offset /\ act[SubmittedNow].count = last.length

C12_ScenarioAcceptedAfterGrowth ==
    IsWriteOf(ScenarioWrites) =>
        /\ last.before = 0 => Rejected
        /\ last.before >= 1000000 + 4096 => Forwarded

(***************************************************************************)
(* C12 as amended: on a regular file of size 0 the scenario's write is     *)
(* rejected (fatal).  set_size_at_least(1,004,096) grows the file from 0   *)
(* to 1,048,576, and the same write is still rejected (fatal) whatever the *)
(* size, because offset 1,000,000 is not a multiple of the device block    *)
(* size; the write moved to the block-aligned offset 999,936 is rejected   *)
(* while it ends beyond the size and, after the growth, passes validation  *)
(* and is forwarded to the disk manager.                                   *)
(***************************************************************************)
C12_ScenarioNeedsAlignedOffset ==
    /\ IsWriteOf(ScenarioWrites) => Rejected
    /\ IsWriteOf(AlignedScenarioWrites) =>
          IF last.offset + last.length <= last.before THEN Forwarded ELSE Rejected
    /\ (/\ last.op = "set_size_at_least" /\ last.n = 1000000 + 4096
        /\ last.before = 0 /\ last.result = "ok" /\ ~is_block[last.f])
          => file_size[last.f] = 16 * GrowthChunk

\* The scenario's write, resubmitted after set_size_at_least(1,004,096) grew
\* the file from 0, fails by assertion.
C12_Witness ==
    /\ IsWriteOf(ScenarioWrites)
    /\ last.before = 16 * GrowthChunk
    /\ last.before >= last.offset + last.length
    /\ Rejected

(***************************************************************************)
(* Vocabulary of the constructor properties: the latest call constructed   *)
(* File last.f with the arguments and on the path state in last.open.      *)
(***************************************************************************)
IsOpenOf(stat, block) ==
    /\ last.op = "open"
    /\ last.open.path.stat = stat
    /\ last.open.path.block = block

WantsCreate == "create" \in last.open.mode

ValidMode == "read" \in last.open.mode \/ "write" \in last.open.mode

(***************************************************************************)
(* C13: constructing a File on a missing path without mode_create returns  *)
(* normally with exists() false, no descriptor (fd is INVALID_FD), no disk *)
(* manager, and the path still missing.  Constructing a File on a missing  *)
(* path (the same one, a File having been constructed on it without        *)
(* mode_create before) with mode_create returns, when the access mode is   *)
(* valid and open succeeds, with exists() true, is_block_device() false,   *)
(* size() 0 and the file created; the only other outcomes are the fatal    *)
(* ones of a bad access mode and of a failed open.                         *)
(***************************************************************************)
C13_MissingPath ==
    IsOpenOf("enoent", FALSE) =>
        LET f == last.f IN
        IF ~WantsCreate
        THEN /\ last.result = "ok" /\ ~halted
             /\ ~file_exists[f]
             /\ fd[f] = INVALID_FD
             /\ diskmgr[f] = "none"
             /\ fs[path_of[f]] = last.open.path
             /\ last.open.flags = {}
        ELSE IF ValidMode /\ last.open.path.openable
        THEN /\ last.result = "ok" /\ ~halted
             /\ file_exists[f] /\ ~is_block[f] /\ file_size[f] = 0
             /\ fd[f] # INVALID_FD
             /\ fs[path_of[f]] = RegularFile(0)
        ELSE last.result \in {"crash", "user_error"} /\ halted

\* A File was constructed on a missing path without mode_create, then a second
\* File on the same path with mode_create.
C13_Witness ==
    /\ IsOpenOf("enoent", FALSE) /\ WantsCreate /\ last.f = 2
    /\ path_of[1] = path_of[2]
    /\ ~file_exists[1] /\ fd[1] = INVALID_FD
    /\ file_exists[2] /\ file_size[2] = 0 /\ ~is_block[2]

(***************************************************************************)
(* C14.  Original statement: every File whose constructor returned with    *)
(* exists() true owns a disk manager from then on, the native-AIO one when *)
(* the backend flag is aio_native and the pooled one otherwise, whether or *)
(* not a thread-pool thread was running the constructor; the disk manager  *)
(* of an open File is never replaced; every read_async/write_async call    *)
(* that passes validation is forwarded to it.                              *)
(***************************************************************************)
ForwardedToDiskManager ==
    /\ last'.result = "returned"
    /\ \E a \in Ids :
          /\ act[a].st = "unalloc" /\ act'[a].st = "live"
          /\ act'[a].fd = fd[last'.f]
          /\ hist'[a][2] = "stats_submit"
          /\ a \in inflight'[last'.f] \cup SeqRange(pending'[last'.f])

C14_OneDiskManagerAlways ==
    [][\A f \in Files :
          /\ (last'.op = "open" /\ last'.f = f /\ path_of[f] = 0 /\ file_exists'[f]
                  /\ last'.result = "ok")
                => diskmgr'[f] = IF last'.open.io_backend = "aio_native"
                                 THEN "aio" ELSE "pool"
          /\ file_exists[f] => diskmgr'[f] = diskmgr[f]
          /\ (last'.op \in {"read_async", "write_async"} /\ last'.f = f
                  /\ last' # last /\ last'.result # "assert")
                => ForwardedToDiskManager]_vars

(***************************************************************************)
(* C14 as amended: a File whose constructor returned with exists() true    *)
(* while a thread-pool thread was running it owns exactly one disk manager *)
(* from then on, the native-AIO one when the backend flag is aio_native    *)
(* and the pooled one otherwise, and every read_async/write_async call on  *)
(* it that passes validation is forwarded to that disk manager.  A File    *)
(* constructed outside a thread-pool thread has no disk manager, and a     *)
(* validated read_async/write_async call on it forwards nothing: it is a   *)
(* call through a null pointer.  The disk manager of an open File, or its  *)
(* absence, never changes.                                                 *)
(***************************************************************************)
C14_OneDiskManagerInThreadPool ==
    [][\A f \in Files :
          /\ (last'.op = "open" /\ last'.f = f /\ path_of[f] = 0 /\ file_exists'[f]
                  /\ last'.result = "ok")
                => diskmgr'[f] = IF ~last'.open.thread THEN "none"
                                 ELSE IF last'.open.io_backend = "aio_native"
                                 THEN "aio" ELSE "pool"
          /\ file_exists[f] => diskmgr'[f] = diskmgr[f]
          /\ (last'.op \in {"read_async", "write_async"} /\ last'.f = f
                  /\ last' # last /\ last'.result # "assert")
                => IF diskmgr[f] # "none"
                   THEN ForwardedToDiskManager
                   ELSE /\ last'.result \in NullCallOutcomes
                        /\ act' = act /\ inflight' = inflight /\ pending' = pending]_vars

\* Both Files are open, one on each backend, and the File on the pooled
\* backend has taken a request.
C14_Witness ==
    /\ last.op \in {"read_async", "write_async"} /\ last.result = "returned"
    /\ diskmgr[last.f] = "pool"
    /\ \E g \in Files : diskmgr[g] = "aio"
    /\ \E a \in Ids : a \in inflight[last.f] /\ act[a].fd = fd[last.f]

(***************************************************************************)
(* C15: on a block device set_size_at_least(n) returns with nothing done   *)
(* when n <= size and fails by assertion when n > size, and set_size(n)    *)
(* fails by assertion; in each case size is unchanged and ftruncate is not *)
(* called.                                                                 *)
(***************************************************************************)
C15_BlockDeviceKeepsSize ==
    (last.op \in {"set_size", "set_size_at_least"} /\ is_block[last.f]) =>
        /\ file_size[last.f] = last.before
        /\ fs[path_of[last.f]].size = last.before
        /\ trace = <<>>
        /\ IF last.op = "set_size_at_least" /\ last.n <= last.before
           THEN last.result = "ok" /\ ~halted
           ELSE last.result = "assert" /\ halted

\* set_size_at_least asked a block device for more than its size.
C15_Witness ==
    /\ last.op = "set_size_at_least" /\ is_block[last.f]
    /\ last.n > last.before
    /\ last.result = "assert"
    /\ file_size[last.f] = GrowthChunk

(***************************************************************************)
(* C16: the stages every action goes through, in order, each once, under   *)
(* one identity: allocation in submit_read/submit_write, Stats.submit,     *)
(* ConflictResolver.submit, Backend.submit, the backend's completion,      *)
(* ConflictResolver.done, Stats.done, DiskManager.done, the caller's       *)
(* callback, free.  In every state the history of an action is a prefix of *)
(* this sequence; it stops only after ConflictResolver.submit (parked) or  *)
(* after Backend.submit (in flight), or it is complete; callbacks are      *)
(* invoked once per action with the callback the caller passed; within one *)
(* File the Stats stage hands actions on in the order it received them, in *)
(* both directions.                                                        *)
(***************************************************************************)
Stages == <<"alloc", "stats_submit", "cr_submit", "backend_submit", "backend_done",
            "cr_done", "stats_done", "dm_done", "callback", "free">>

\* The actions that stage ev handled in the latest handler, in order.
HandledBy(ev) ==
    LET sel == SelectSeq(trace, LAMBDA e : e[1] = ev)
    IN  [i \in 1 .. Len(sel) |-> sel[i][2]]

C16_StagesInOrder ==
    /\ \A a \in Ids :
          /\ Len(hist[a]) <= Len(Stages)
          /\ hist[a] = SubSeq(Stages, 1, Len(hist[a]))
          /\ Len(hist[a]) \in {0, 3, 4, Len(Stages)}
          /\ Len(hist[a]) = 3 <=> Parked(a)
          /\ Len(hist[a]) = 4 <=> \E f \in Files : a \in inflight[f]
          /\ Count(cbOrder, a) = (IF Len(hist[a]) = Len(Stages) THEN 1 ELSE 0)
          /\ Submitted(a) =>
                /\ act[a].cb = a
                /\ act[a].offset = req[a].offset /\ act[a].count = req[a].length
                /\ act[a].kind = req[a].kind /\ act[a].fd = fd[req[a].f]
    /\ HandledBy("stats_submit") = HandledBy("cr_submit")
    /\ HandledBy("stats_done") = HandledBy("cr_done")
    /\ HandledBy("stats_done") = HandledBy("dm_done")

\* An action has gone through every stage; its completion handler released
\* a parked action, which went on to Backend.submit under its own identity.
C16_Witness ==
    \E a, b \in Ids :
        /\ hist[b] = Stages
        /\ hist[a] = SubSeq(Stages, 1, 4)
        /\ Conflict(a, b) /\ b < a
        /\ At("free", b) # {} /\ At("backend_submit", a) # {}
        /\ cbOrder = <<b>>

(***************************************************************************)
(* C17: while a read_blocking/write_blocking call is in progress, every    *)
(* pass issues pread/pwrite with the offset, length and buffer of the      *)
(* call; the call is reissued exactly when the answer is -1 with errno     *)
(* EINTR, with nothing reported and the arguments unchanged; it returns    *)
(* exactly when the answer equals length; any other answer (a short        *)
(* transfer, an error other than EINTR) is fatal and not retried.  A call  *)
(* that is not interrupted forever ends: it returns or the process is      *)
(* terminated.                                                             *)
(***************************************************************************)
PassResult == trace'[4][2]
PassInterrupted == trace'[4][2] = -1 /\ trace'[5][2] = 1

C17_BlockingRetriesOnEintr ==
    /\ [][(blocking # NoCall /\ ~halted) =>
            /\ trace'[1] = <<IF blocking.op = "read_blocking" THEN "pread"
                             ELSE "pwrite", last.offset>>
            /\ trace'[2] = <<"length", last.length>>
            /\ trace'[3] = <<"buf", last.buf>>
            /\ last'.op = last.op /\ last'.offset = last.offset
            /\ last'.length = last.length /\ last'.buf = last.buf
            /\ IF PassInterrupted
               THEN /\ blocking' = [blocking EXCEPT !.tries = @ + 1]
                    /\ last'.result = "eintr" /\ ~halted'
               ELSE IF PassResult = last.length
               THEN blocking' = NoCall /\ last'.result = "ok" /\ ~halted'
               ELSE halted' /\ last'.result = "assert" /\ blocking' = blocking]_vars
    /\ (blocking # NoCall) ~> (blocking = NoCall \/ halted)

\* A blocking call was interrupted and reissued as often as the model
\* interrupts, and is still in progress.
C17_Witness ==
    /\ blocking # NoCall /\ blocking.tries = MaxEintr
    /\ last.result = "eintr" /\ ~halted
    /\ blocking.offset = last.offset /\ blocking.length = last.length

(***************************************************************************)
(* C18.  Original statement: constructing a File with a mode that asks for *)
(* neither reading nor writing is fatal whatever the path is (a regular    *)
(* file, a block device, a missing path with or without mode_create); with *)
(* a valid mode exactly one of O_RDWR, O_WRONLY, O_RDONLY is passed to     *)
(* open, O_RDWR when both reading and writing are asked for.               *)
(***************************************************************************)
AccessFlagNames == {"O_RDWR", "O_WRONLY", "O_RDONLY"}

OneAccessFlag ==
    last.open.flags \cap AccessFlagNames =
        IF "read" \in last.open.mode /\ "write" \in last.open.mode THEN {"O_RDWR"}
        ELSE IF "write" \in last.open.mode THEN {"O_WRONLY"}
        ELSE {"O_RDONLY"}

ReachesOpen == last.open.path.stat = "ok" \/ WantsCreate

C18_BadModeAlwaysFatal ==
    (last.op = "open" /\ last.open.path.stat # "error") =>
        IF ~ValidMode
        THEN halted /\ last.result = "crash"
        ELSE ReachesOpen => OneAccessFlag

(***************************************************************************)
(* C18 as amended: constructing a File with a mode that asks for neither   *)
(* reading nor writing is fatal ("Bad file access mode") when the path     *)
(* exists (regular file or block device) and when it is missing and        *)
(* mode_create is set, and open is not called; on a missing path without   *)
(* mode_create the constructor returns before it looks at the access mode, *)
(* with exists() false and nothing fatal, whatever the mode.  When the     *)
(* mode is valid and the constructor gets to open, exactly one of O_RDWR,  *)
(* O_WRONLY, O_RDONLY is passed, O_RDWR when both are asked for.           *)
(***************************************************************************)
C18_BadModeFatalPastStat ==
    (last.op = "open" /\ last.open.path.stat # "error") =>
        IF ~ReachesOpen
        THEN /\ ~halted /\ last.result = "ok" /\ ~file_exists[last.f]
             /\ last.open.flags = {}
        ELSE IF ~ValidMode
        THEN /\ halted /\ last.result = "crash"
             /\ fd[last.f] = INVALID_FD /\ ~last.open.created
        ELSE OneAccessFlag

\* A missing path, mode_create alone: the constructor crashed on the mode.
C18_Witness ==
    /\ IsOpenOf("enoent", FALSE)
    /\ last.open.mode = {"create"}
    /\ last.result = "crash" /\ halted

(***************************************************************************)
(* C19: in every state, every action parked in a File's pending queue      *)
(* overlaps an action of that File that is in flight at the backend or     *)
(* queued ahead of it; a File whose backend has nothing in flight has an   *)
(* empty pending queue; every allocated action that is not freed is parked *)
(* or in flight, and in exactly one of the two places.                     *)
(***************************************************************************)
C19_ParkedBehindConflict ==
    /\ \A f \in Files :
          /\ \A i \in 1 .. Len(pending[f]) :
                \E b \in inflight[f] \cup {pending[f][j] : j \in 1 .. (i - 1)} :
                    Conflict(pending[f][i], b)
          /\ inflight[f] = {} => pending[f] = <<>>
          /\ inflight[f] \cap SeqRange(pending[f]) = {}
    /\ \A a \in Ids :
          act[a].st = "live" <=>
              \E f \in Files : a \in inflight[f] \cup SeqRange(pending[f])

\* Two actions are parked; the second overlaps nothing at the backend, only
\* the action queued ahead of it.
C19_Witness ==
    \E f \in Files, a \in Ids :
        /\ Len(pending[f]) = 2 /\ inflight[f] = {a}
        /\ Conflict(pending[f][1], a)
        /\ ~Conflict(pending[f][2], a)
        /\ Conflict(pending[f][2], pending[f][1])

(***************************************************************************)
(* C20.  Original statement: a pass of a read_blocking/write_blocking call *)
(* never issues its pread/pwrite on a byte range that overlaps an action   *)
(* of the same File that is in flight at the backend or parked in the      *)
(* pending queue.                                                          *)
(***************************************************************************)
IsSyscallPass == Len(trace) > 0 /\ trace[1][1] \in {"pread", "pwrite"}

\* Action a of File last.f is uncompleted and its range meets the range of
\* the latest blocking call.
RacesWithBlocking(a) ==
    /\ AtBackend(a) \/ Parked(a)
    /\ req[a].f = last.f
    /\ req[a].offset < last.offset + last.length
    /\ last.offset < req[a].offset + req[a].length

=============================================================================
